---- MODULE Spec2Model ----
(***************************************************************************)
(* AcquireCamera (DeviceAdapters/Acquire/AcquireCamera.cpp): the adapter   *)
(* state, the Mode property handler, SnapImage and the frame read routines *)
(* readFrame / readFrames, against an opaque FrameSource (cpx).            *)
(*                                                                         *)
(* Pixel memory is kept as a list of runs.  A run [len, src, off] stands   *)
(* for len consecutive bytes that are bytes off .. off+len-1 of the        *)
(* payload of frame src (or of the blank fill of a fresh buffer).  Two     *)
(* byte ranges are equal byte for byte iff their normalised run lists are  *)
(* equal; every frame has its own identity, so bytes of different frames   *)
(* never compare equal by accident.                                        *)
(***************************************************************************)
EXTENDS Integers, Sequences, FiniteSets, TLC

\* ------------------------------------------------------------------ bounds
MaxEmptyPolls == 3      \* empty views a stream may report before a frame
MaxFramesInView == 2    \* frames visible in one non-empty view
MaxAcquisitions == 2    \* acquisitions (SnapImage / readFrame calls) per run

\* ------------------------------------------------------- program constants
DEMO_IMAGE_WIDTH == 640
DEMO_IMAGE_HEIGHT == 480
pixDepth == 1
demoProp == 1
\* sizeof(VideoFrame), the header in front of each frame's payload; the
\* struct is the FrameSource's, and nothing below depends on the value
sizeofVideoFrame == 96

\* -------------------------------------------------------------- pixel runs
Blank == [stream |-> -1, acq |-> 0, idx |-> 0]

Run(n, src, o) == [len |-> n, src |-> src, off |-> o]

RECURSIVE RunsLen(_)
RunsLen(rs) == IF rs = <<>> THEN 0 ELSE Head(rs).len + RunsLen(Tail(rs))

RECURSIVE TakeBytes(_, _)
TakeBytes(rs, n) ==
    IF n <= 0 \/ rs = <<>> THEN <<>>
    ELSE IF Head(rs).len <= n
         THEN <<Head(rs)>> \o TakeBytes(Tail(rs), n - Head(rs).len)
         ELSE <<Run(n, Head(rs).src, Head(rs).off)>>

RECURSIVE DropBytes(_, _)
DropBytes(rs, n) ==
    IF rs = <<>> THEN <<>>
    ELSE IF n <= 0 THEN rs
    ELSE IF Head(rs).len <= n
         THEN DropBytes(Tail(rs), n - Head(rs).len)
         ELSE <<Run(Head(rs).len - n, Head(rs).src, Head(rs).off + n)>> \o Tail(rs)

RECURSIVE Norm(_)
Norm(rs) ==
    IF rs = <<>> THEN <<>>
    ELSE IF Head(rs).len = 0 THEN Norm(Tail(rs))
    ELSE LET t == Norm(Tail(rs)) IN
         IF t # <<>> /\ Head(t).src = Head(rs).src
                     /\ Head(t).off = Head(rs).off + Head(rs).len
         THEN <<Run(Head(rs).len + Head(t).len, Head(rs).src, Head(rs).off)>> \o Tail(t)
         ELSE <<Head(rs)>> \o t

\* bytes [a, b) of a run list
Slice(rs, a, b) == Norm(TakeBytes(DropBytes(rs, a), b - a))

\* the whole payload of frame f, n bytes long
Payload(f, n) == Norm(<<Run(n, f, 0)>>)

\* memcpy(dst + o, f->data, n) for a copy that lies inside dst
memcpy(pix, o, f, n) ==
    Norm(TakeBytes(pix, o) \o <<Run(n, f, 0)>> \o DropBytes(pix, o + n))

\* ------------------------------------------------------------ ImageBuffer
\* ImgBuffer::Resize(w, h, d): a fresh pixel array of w*h*d bytes
Resize(w, h, d) == [w |-> w, h |-> h, d |-> d, pix |-> Norm(<<Run(w * h * d, Blank, 0)>>)]

BufBytes(b) == b.w * b.h * b.d

setupBuffersSingleHeightMut(dm, mc, old) ==
    IF dm
    THEN IF mc
         THEN << Resize(DEMO_IMAGE_WIDTH, DEMO_IMAGE_HEIGHT, pixDepth),
                 Resize(DEMO_IMAGE_WIDTH, DEMO_IMAGE_HEIGHT, pixDepth) >>
         ELSE << Resize(DEMO_IMAGE_WIDTH, DEMO_IMAGE_HEIGHT, pixDepth) >>
    ELSE old

\* setupBuffers(): the new value of imgs, from demo, multiChannel and imgs
setupBuffers(dm, mc, old) ==
    IF dm
    THEN IF mc
         THEN << Resize(DEMO_IMAGE_WIDTH, DEMO_IMAGE_HEIGHT, pixDepth),
                 Resize(DEMO_IMAGE_WIDTH, DEMO_IMAGE_HEIGHT, pixDepth) >>
         ELSE << Resize(DEMO_IMAGE_WIDTH, DEMO_IMAGE_HEIGHT * 2, pixDepth) >>
    ELSE old

\* ------------------------------------------------------------------- state
VARIABLES
    initialized_,   \* AcquireCamera::initialized_
    multiChannel,   \* AcquireCamera::multiChannel
    demo,           \* AcquireCamera::demo
    imgs,           \* AcquireCamera::imgs, a sequence of ImageBuffers
    cpx,            \* AcquireCamera::cpx: "null" or "handle"
    modeProp,       \* the Mode property: "absent" until Initialize creates it
    cpxConfig,      \* FrameSource: last accepted configuration, <<>> if none
    cpxRunning,     \* FrameSource: started and not stopped
    pc,             \* position of the host's call inside the adapter
    routine,        \* read routine in progress: "readFrames" / "readFrame"
    stream,         \* stream the read routine is working on
    view,           \* frames in [beg, end) of the last cpx_map_read
    polls,          \* empty views seen so far by the read of this stream
    props,          \* SnapImage's local CpxProperties (video[0], video[1])
    calls,          \* FrameSource calls and copies of the handler in progress
                    \* or last completed, in order (acquisition handlers only)
    ret,            \* what the last completed handler returned
    lastOp,         \* the last completed handler
    acqNo,          \* acquisitions begun so far
    heapOverrun,    \* a memcpy has written past the end of its buffer
    repeatSet       \* the last Mode set repeated the value of the set before it

vars == << initialized_, multiChannel, demo, imgs, cpx, modeProp, cpxConfig,
           cpxRunning, pc, routine, stream, view, polls, props, calls, ret,
           lastOp, acqNo, heapOverrun, repeatSet >>

adapterVars == << initialized_, multiChannel, demo, imgs, cpx, modeProp >>
readVars == << routine, stream, view, polls >>

\* the constructor: initialized_(false), multiChannel(true), demo(true)
Init ==
    /\ initialized_ = FALSE
    /\ multiChannel = TRUE
    /\ demo = TRUE
    /\ imgs = <<>>
    /\ cpx = "null"
    /\ modeProp = "absent"
    /\ cpxConfig = <<>>
    /\ cpxRunning = FALSE
    /\ pc = "idle"
    /\ routine = "none"
    /\ stream = 0
    /\ view = <<>>
    /\ polls = 0
    /\ props = <<>>
    /\ calls = <<>>
    /\ ret = "none"
    /\ lastOp = "constructor"
    /\ acqNo = 0
    /\ heapOverrun = FALSE
    /\ repeatSet = FALSE

\* ------------------------------------------------------------- Initialize
InitOutcomes == {"ok", "cpx_null", "dm_null", "props_fail", "select0_fail", "select1_fail"}

Initialize ==
    /\ pc = "idle"
    /\ \E outcome \in InitOutcomes :
        IF initialized_
        THEN /\ ret' = "DEVICE_OK"
             /\ UNCHANGED adapterVars
        ELSE /\ demo' = (demoProp = 1)
             /\ modeProp' = IF modeProp = "absent" THEN "Multi" ELSE modeProp
             /\ multiChannel' = TRUE
             /\ imgs' = setupBuffers(demo', TRUE, imgs)
             /\ cpx' = IF outcome = "cpx_null" THEN "null" ELSE "handle"
             /\ initialized_' = (outcome = "ok")
             /\ ret' = CASE outcome = "ok" -> "DEVICE_OK"
                         [] outcome \in {"cpx_null", "dm_null"} -> "ERR_CPX_INIT"
                         [] OTHER -> "CpxStatus_Err"
    /\ lastOp' = "Initialize"
    /\ calls' = <<>>
    /\ repeatSet' = FALSE
    /\ UNCHANGED << cpxConfig, cpxRunning, pc, readVars, props, acqNo,
                    heapOverrun >>

\* ---------------------------------------------------------------- Shutdown
Shutdown ==
    /\ pc = "idle"
    /\ cpx' = "null"
    /\ cpxRunning' = IF cpx # "null" THEN FALSE ELSE cpxRunning
    /\ cpxConfig' = IF cpx # "null" THEN <<>> ELSE cpxConfig
    /\ initialized_' = FALSE
    /\ ret' = "DEVICE_OK"
    /\ lastOp' = "Shutdown"
    /\ calls' = <<>>
    /\ repeatSet' = FALSE
    /\ UNCHANGED << multiChannel, demo, imgs, modeProp, pc, readVars, props,
                    acqNo, heapOverrun >>

\* ------------------------------------------------------------- OnImageMode
ModeValues == {"Multi", "Single"}

OnImageModeBeforeGet ==
    /\ pc = "idle"
    /\ modeProp # "absent"
    /\ modeProp' = IF multiChannel THEN "Multi" ELSE "Single"
    /\ ret' = "DEVICE_OK"
    /\ lastOp' = "OnImageMode.BeforeGet"
    /\ calls' = <<>>
    /\ repeatSet' = FALSE
    /\ UNCHANGED << initialized_, multiChannel, demo, imgs, cpx, cpxConfig,
                    cpxRunning, pc, readVars, props, acqNo, heapOverrun >>

OnImageModeAfterSet ==
    /\ pc = "idle"
    /\ modeProp # "absent"
    /\ \E mode \in ModeValues :
        /\ modeProp' = mode
        /\ multiChannel' = (mode = "Multi")
        /\ imgs' = setupBuffers(demo, multiChannel', imgs)
    /\ repeatSet' = (lastOp = "OnImageMode.AfterSet" /\ multiChannel' = multiChannel)
    /\ ret' = "DEVICE_OK"
    /\ lastOp' = "OnImageMode.AfterSet"
    /\ calls' = <<>>
    /\ UNCHANGED << initialized_, demo, cpx, cpxConfig, cpxRunning, pc,
                    readVars, props, acqNo, heapOverrun >>

\* --------------------------------------------------------- the call record
Ev(op) == [op |-> op, stream |-> -1, status |-> "", bytes |-> 0, frames |-> 0,
           dst |-> -1, off |-> 0, frame |-> Blank]

Status == {"Ok", "Err"}

\* -------------------------------------------------------------- FrameSource
\* bytes per pixel of a SampleType
PixelBytes(t) == IF t = "u16" THEN 2 ELSE 1

\* payload bytes of one frame of a stream configured as c
PayloadBytes(c) == c.shape.w * c.shape.h * PixelBytes(c.pixel_type)

\* a view of n frames on stream s: frame records laid end to end, each
\* carrying bytes_of_frame = header + payload
View(s, n) ==
    [i \in 1..n |->
        [id |-> [stream |-> s, acq |-> acqNo, idx |-> i],
         bytes_of_frame |-> sizeofVideoFrame + PayloadBytes(cpxConfig[s + 1])]]

RECURSIVE SpanBytes(_)
SpanBytes(v) == IF v = <<>> THEN 0 ELSE Head(v).bytes_of_frame + SpanBytes(Tail(v))

\* ---------------------------------------------------------------- SnapImage
\* lines 259-291: fetch the configuration, bind the four devices (the
\* statuses device_manager_select returns are not looked at), fill in the
\* per-stream settings from imgs[0]
VideoSettings(img) ==
    [binning |-> 1,
     pixel_type |-> IF img.d = 2 THEN "u16" ELSE "u8",
     shape |-> [w |-> img.w, h |-> img.h],
     max_frame_count |-> 1]

SnapImage_Bind ==
    /\ pc = "idle"
    /\ initialized_
    /\ Len(imgs) >= 1
    /\ acqNo < MaxAcquisitions
    /\ acqNo' = acqNo + 1
    /\ \E st \in [1..4 -> Status] :
         calls' = [i \in 1..4 |->
                     [Ev("select") EXCEPT !.stream = (i - 1) % 2, !.status = st[i],
                                          !.dst = IF i <= 2 THEN 0 ELSE 1]]
    /\ props' = << VideoSettings(imgs[1]), VideoSettings(imgs[1]) >>
    /\ pc' = "configure"
    /\ UNCHANGED << adapterVars, cpxConfig, cpxRunning, readVars, ret, lastOp,
                    heapOverrun, repeatSet >>

\* lines 293-298: cpx_configure
SnapImage_Configure ==
    /\ pc = "configure"
    /\ \E st \in Status :
        /\ calls' = Append(calls, [Ev("configure") EXCEPT !.status = st])
        /\ IF st = "Ok"
           THEN /\ cpxConfig' = props
                /\ pc' = "start"
                /\ UNCHANGED << ret, lastOp >>
           ELSE /\ pc' = "idle"
                /\ ret' = "ERR_CPX_CONFIURE_FAILED"
                /\ lastOp' = "SnapImage"
                /\ UNCHANGED cpxConfig
    /\ UNCHANGED << adapterVars, cpxRunning, readVars, props, acqNo, heapOverrun, repeatSet >>

\* lines 300-305: cpx_start; on failure a std::exception leaves SnapImage
SnapImage_Start ==
    /\ pc = "start"
    /\ \E st \in Status :
        /\ calls' = Append(calls, [Ev("start") EXCEPT !.status = st])
        /\ IF st = "Ok"
           THEN /\ cpxRunning' = TRUE
                /\ pc' = "map"
                /\ routine' = "readFrames"
                /\ stream' = 0
                /\ polls' = 0
                /\ UNCHANGED << ret, lastOp >>
           ELSE /\ pc' = "idle"
                /\ ret' = "std::exception"
                /\ lastOp' = "SnapImage"
                /\ UNCHANGED << cpxRunning, routine, stream, polls >>
    /\ UNCHANGED << adapterVars, cpxConfig, view, props, acqNo, heapOverrun, repeatSet >>

SnapImage_StopNoStopMut ==
    /\ pc = "stop"
    /\ pc' = "idle"
    /\ ret' = "DEVICE_OK"
    /\ lastOp' = "SnapImage"
    /\ UNCHANGED << adapterVars, cpxConfig, cpxRunning, readVars, props, calls,
                    acqNo, heapOverrun, repeatSet >>

\* lines 307-309: cpx_stop, return DEVICE_OK
SnapImage_Stop ==
    /\ pc = "stop"
    /\ calls' = Append(calls, Ev("stop"))
    /\ cpxRunning' = FALSE
    /\ pc' = "idle"
    /\ ret' = "DEVICE_OK"
    /\ lastOp' = "SnapImage"
    /\ UNCHANGED << adapterVars, cpxConfig, readVars, props, acqNo, heapOverrun, repeatSet >>

\* ------------------------------------------------- readFrame / readFrames
\* readFrame(stream, props) is entered with a configured, valid stream and
\* a destination buffer that has room for the payload (its stated contract)
readFrame ==
    /\ pc = "idle"
    /\ initialized_
    /\ cpxConfig # <<>>
    /\ acqNo < MaxAcquisitions
    /\ \E s \in {0, 1} :
        /\ s < Len(imgs)
        /\ PayloadBytes(cpxConfig[s + 1]) <= BufBytes(imgs[s + 1])
        /\ stream' = s
    /\ acqNo' = acqNo + 1
    /\ routine' = "readFrame"
    /\ polls' = 0
    /\ calls' = <<>>
    /\ pc' = "map"
    /\ UNCHANGED << adapterVars, cpxConfig, cpxRunning, view, props, ret, lastOp,
                    heapOverrun, repeatSet >>

\* the frame counts cpx_map_read may report at this attempt
Available == { n \in 0..MaxFramesInView : n = 0 => polls < MaxEmptyPolls }

MapEvent(s, v) ==
    [Ev("map_read") EXCEPT !.stream = s, !.frames = Len(v), !.bytes = SpanBytes(v)]

\* lines 366 / 393 / 405: the first cpx_map_read of a stream
MapRead ==
    /\ pc = "map"
    /\ \E n \in Available :
        /\ view' = View(stream, n)
        /\ polls' = IF n = 0 THEN polls + 1 ELSE polls
        /\ calls' = Append(calls, MapEvent(stream, view'))
    /\ pc' = "loop"
    /\ UNCHANGED << adapterVars, cpxConfig, cpxRunning, routine, stream, props,
                    ret, lastOp, acqNo, heapOverrun, repeatSet >>

\* while (beg == end)
LoopCond(v) == v = <<>>

PollAgainCopyMut ==
    /\ pc = "loop"
    /\ LoopCond(view)
    /\ \E n \in Available :
        /\ view' = View(stream, n)
        /\ polls' = IF n = 0 THEN polls + 1 ELSE polls
        /\ calls' = IF n = 0
                    THEN Append(calls, MapEvent(stream, view'))
                    ELSE Append(Append(calls, MapEvent(stream, view')),
                                [Ev("memcpy") EXCEPT !.stream = stream,
                                    !.frame = view'[1].id])
    /\ UNCHANGED << adapterVars, cpxConfig, cpxRunning, pc, routine, stream,
                    props, ret, lastOp, acqNo, heapOverrun, repeatSet >>

\* lines 367-372 / 394-398 / 406-410: the body of the polling loop
PollAgain ==
    /\ pc = "loop"
    /\ LoopCond(view)
    /\ \E n \in Available :
        /\ view' = View(stream, n)
        /\ polls' = IF n = 0 THEN polls + 1 ELSE polls
        /\ calls' = Append(calls, MapEvent(stream, view'))
    /\ UNCHANGED << adapterVars, cpxConfig, cpxRunning, pc, routine, stream,
                    props, ret, lastOp, acqNo, heapOverrun, repeatSet >>

DestIndexFirstBufferMut(r, s, mc) == IF r = "readFrame" THEN s ELSE 0

\* index into imgs of the buffer the copy of stream s goes to
DestIndex(r, s, mc) ==
    IF r = "readFrame" THEN s
    ELSE IF s = 0 THEN 0
    ELSE IF mc THEN 1 ELSE 0

\* byte offset of the copy inside that buffer
DestOffset(r, s, mc, bufs) ==
    IF r = "readFrames" /\ s = 1 /\ ~mc
    THEN (bufs[1].w * bufs[1].h * bufs[1].d) \div 2
    ELSE 0

\* beg->bytes_of_frame - sizeof(VideoFrame)
CopyBytes(v) == v[1].bytes_of_frame - sizeofVideoFrame

\* lines 373 / 399 / 411-415: memcpy of the first visible frame.  A copy
\* that runs past the end of the buffer is undefined: the process may die
\* there, or go on with the bytes after the buffer overwritten.
Memcpy ==
    /\ pc = "loop"
    /\ ~LoopCond(view)
    /\ LET d == DestIndex(routine, stream, multiChannel)
           o == DestOffset(routine, stream, multiChannel, imgs)
           n == CopyBytes(view)
           inside == d < Len(imgs) /\ o + n <= BufBytes(imgs[d + 1])
       IN /\ calls' = Append(calls, [Ev("memcpy") EXCEPT !.stream = stream,
                                        !.dst = d, !.off = o, !.bytes = n,
                                        !.frame = view[1].id])
          /\ IF inside
             THEN /\ imgs' = [imgs EXCEPT ![d + 1].pix = memcpy(@, o, view[1].id, n)]
                  /\ pc' = "unmap"
                  /\ UNCHANGED heapOverrun
             ELSE /\ heapOverrun' = TRUE
                  /\ imgs' = IF d < Len(imgs)
                             THEN [imgs EXCEPT ![d + 1].pix =
                                     memcpy(@, o, view[1].id, BufBytes(imgs[d + 1]) - o)]
                             ELSE imgs
                  /\ pc' \in {"unmap", "crashed"}
    /\ UNCHANGED << initialized_, multiChannel, demo, cpx, modeProp, cpxConfig,
                    cpxRunning, readVars, props, ret, lastOp, acqNo, repeatSet >>

consumed_bytesFirstFrameMut(v) == v[1].bytes_of_frame

\* consumed_bytes(beg, end): (uint8_t*)end - (uint8_t*)cur.  The caller's
\* cast to uint32_t leaves it as it is: a view of at most MaxFramesInView
\* frames spans far less than 2^32 bytes.
consumed_bytes(v) == SpanBytes(v)

UnmapReadEarlyNextStreamMut ==
    /\ pc = "unmap"
    /\ IF routine = "readFrames" /\ stream = 0
       THEN /\ calls' = Append(Append(calls, MapEvent(1, <<>>)),
                               [Ev("unmap_read") EXCEPT !.stream = stream,
                                   !.bytes = consumed_bytes(view)])
            /\ stream' = 1
            /\ pc' = "loop"
            /\ UNCHANGED << ret, lastOp >>
       ELSE /\ calls' = Append(calls, [Ev("unmap_read") EXCEPT !.stream = stream,
                                         !.bytes = consumed_bytes(view)])
            /\ UNCHANGED stream
            /\ IF routine = "readFrame"
               THEN pc' = "idle" /\ ret' = "0" /\ lastOp' = "readFrame"
               ELSE pc' = "stop" /\ UNCHANGED << ret, lastOp >>
    /\ view' = <<>>
    /\ polls' = 0
    /\ UNCHANGED << adapterVars, cpxConfig, cpxRunning, routine, props, acqNo,
                    heapOverrun, repeatSet >>

\* lines 374-377 / 400-401 / 417-420: cpx_unmap_read, then on to the next
\* stream or back to the caller
UnmapRead ==
    /\ pc = "unmap"
    /\ calls' = Append(calls, [Ev("unmap_read") EXCEPT !.stream = stream,
                                  !.bytes = consumed_bytes(view)])
    /\ view' = <<>>
    /\ polls' = 0
    /\ IF routine = "readFrame"
       THEN /\ pc' = "idle"
            /\ ret' = "0"
            /\ lastOp' = "readFrame"
            /\ UNCHANGED stream
       ELSE /\ IF stream = 0
               THEN /\ stream' = 1
                    /\ pc' = "map"
               ELSE /\ pc' = "stop"
                    /\ UNCHANGED stream
            /\ UNCHANGED << ret, lastOp >>
    /\ UNCHANGED << adapterVars, cpxConfig, cpxRunning, routine, props, acqNo,
                    heapOverrun, repeatSet >>

Next ==
    \/ Initialize
    \/ Shutdown
    \/ OnImageModeBeforeGet
    \/ OnImageModeAfterSet
    \/ SnapImage_Bind
    \/ SnapImage_Configure
    \/ SnapImage_Start
    \/ SnapImage_Stop
    \/ readFrame
    \/ MapRead
    \/ PollAgain
    \/ Memcpy
    \/ UnmapRead

Spec == Init /\ [][Next]_vars

\* ==================================================================== claims
ReadOps == {"map_read", "memcpy", "unmap_read"}

\* positions in calls of the calls named op
Ops(op) == { i \in DOMAIN calls : calls[i].op = op }

\* the read of stream s: its map_read, memcpy and unmap_read calls, in order
IsReadOf(s, e) == e.stream = s /\ e.op \in ReadOps
LegOf(s) == SelectSeq(calls, LAMBDA e : IsReadOf(s, e))

\* the first frame the FrameSource shows on stream s in this acquisition
FirstFrame(s) == [stream |-> s, acq |-> acqNo, idx |-> 1]

SnapReturnedOk == pc = "idle" /\ lastOp = "SnapImage" /\ ret = "DEVICE_OK"
SnapReturned == pc = "idle" /\ lastOp = "SnapImage"

\* the read of stream s has run to its end
LegDone(s) ==
    \/ pc = "stop"
    \/ SnapReturnedOk
    \/ pc \in {"map", "loop", "unmap"} /\ routine = "readFrames" /\ stream = 1 /\ s = 0
    \/ pc = "idle" /\ lastOp = "readFrame" /\ stream = s

HasShape(b, w, h, d) == b.w = w /\ b.h = h /\ b.d = d /\ RunsLen(b.pix) = w * h * d

Min(a, b) == IF a <= b THEN a ELSE b

\* C1: in demo mode, once Initialize has created the Mode property, the
\* buffer list matches Mode in every state: multi = exactly two buffers of
\* 640 x 480 x 1, single = exactly one buffer of 640 x 960 x 1
BufferListMatchesMode ==
    (modeProp # "absent" /\ demo) =>
        IF multiChannel
        THEN Len(imgs) = 2 /\ \A i \in 1..2 : HasShape(imgs[i], 640, 480, 1)
        ELSE Len(imgs) = 1 /\ HasShape(imgs[1], 640, 960, 1)

\* Mode = Single set twice in a row, then SnapImage issued
SingleSetTwiceThenSnap ==
    /\ repeatSet /\ ~multiChannel /\ pc = "configure"
    /\ Len(imgs) = 1 /\ HasShape(imgs[1], 640, 960, 1)

\* C2: Mode = single, SnapImage returned DEVICE_OK: each stream emitted one
\* 640 x 480 payload, the first half of the one 640 x 960 buffer is stream
\* 0's payload and the second half is stream 1's, byte for byte
SingleSnapStacksBothPayloads ==
    (SnapReturnedOk /\ ~multiChannel) =>
        /\ Len(imgs) = 1 /\ HasShape(imgs[1], 640, 960, 1)
        /\ \A s \in {0, 1} : PayloadBytes(cpxConfig[s + 1]) = 640 * 480
        /\ Slice(imgs[1].pix, 0, 307200)
             = Payload(FirstFrame(0), PayloadBytes(cpxConfig[1]))
        /\ Slice(imgs[1].pix, 307200, 614400)
             = Payload(FirstFrame(1), PayloadBytes(cpxConfig[2]))

\* C3: Mode = multi, readFrames has returned: buffer[0] is the payload of
\* the first frame visible on stream 0, buffer[1] that of the first frame
\* visible on stream 1, whole and nothing else
MultiReadFillsEachBufferFromItsStream ==
    ((pc = "stop" \/ SnapReturnedOk) /\ multiChannel) =>
        /\ Len(imgs) = 2
        /\ imgs[1].pix = Payload(FirstFrame(0), PayloadBytes(cpxConfig[1]))
        /\ imgs[2].pix = Payload(FirstFrame(1), PayloadBytes(cpxConfig[2]))
        /\ HasShape(imgs[1], 640, 480, 1) /\ HasShape(imgs[2], 640, 480, 1)

\* multi mode, both streams polled empty first, two frames visible on each
MultiReadReturned ==
    /\ pc = "stop" /\ multiChannel
    /\ \A s \in {0, 1} :
         /\ \E i \in Ops("map_read") : calls[i].stream = s /\ calls[i].frames = 2
         /\ \E i \in Ops("map_read") : calls[i].stream = s /\ calls[i].frames = 0

\* C4: a stream that shows nothing on the first K polls and exactly one
\* frame on poll K+1: nothing but empty polls before that frame shows, then
\* one copy of that frame's payload, then one unmap, no further poll; the
\* bytes land at the destination; a finished read has made exactly these
\* K + 3 calls
PollThenCopyOnce ==
    /\ \A s \in {0, 1} :
        LET leg == LegOf(s) IN
        /\ \A i \in DOMAIN leg :
             leg[i].op \in {"memcpy", "unmap_read"} =>
                \E j \in 1..(i - 1) : leg[j].op = "map_read" /\ leg[j].frames >= 1
        /\ \A j \in DOMAIN leg :
             (leg[j].op = "map_read" /\ leg[j].frames = 1) =>
                /\ \A i \in 1..(j - 1) : leg[i].op = "map_read" /\ leg[i].frames = 0
                /\ Len(leg) <= j + 2
                /\ Len(leg) >= j + 1 =>
                     /\ leg[j + 1].op = "memcpy"
                     /\ leg[j + 1].frame = FirstFrame(s)
                     /\ leg[j + 1].bytes = PayloadBytes(cpxConfig[s + 1])
                /\ Len(leg) >= j + 2 => leg[j + 2].op = "unmap_read"
                /\ LegDone(s) => Len(leg) = j + 2
    /\ pc = "unmap" =>
        LET e == calls[Len(calls)]
            n == PayloadBytes(cpxConfig[stream + 1])
            m == Min(n, BufBytes(imgs[e.dst + 1]) - e.off)
        IN /\ e.op = "memcpy" /\ e.stream = stream
           /\ Slice(imgs[e.dst + 1].pix, e.off, e.off + m)
                = Slice(Payload(FirstFrame(stream), n), 0, m)

\* a finished read that saw MaxEmptyPolls empty views and then one frame
ThreeEmptyPollsThenOneFrame ==
    \E s \in {0, 1} :
        /\ LegDone(s)
        /\ Len(LegOf(s)) = MaxEmptyPolls + 3
        /\ LegOf(s)[MaxEmptyPolls + 1].frames = 1
        /\ MaxEmptyPolls >= 3

\* C5: every read issues at most one unmap_read on its stream, a finished
\* read exactly one; it directly follows the copy, which directly follows
\* the non-empty map_read, and it releases the whole span of that view:
\* frames x (header + payload) bytes, for one frame and for several
UnmapReleasesWholeSpan ==
    \A s \in {0, 1} :
        LET leg == LegOf(s)
            unmaps == { i \in DOMAIN leg : leg[i].op = "unmap_read" }
        IN /\ Cardinality(unmaps) <= 1
           /\ LegDone(s) /\ leg # <<>> => Cardinality(unmaps) = 1
           /\ \A i \in unmaps :
                /\ i >= 3
                /\ leg[i - 1].op = "memcpy"
                /\ leg[i - 2].op = "map_read" /\ leg[i - 2].frames >= 1
                /\ leg[i].bytes = leg[i - 2].bytes
                /\ leg[i].bytes = leg[i - 2].frames
                                    * (sizeofVideoFrame + PayloadBytes(cpxConfig[s + 1]))

\* both reads finished, one frame in stream 0's view, several in stream 1's
UnmapAfterOneAndAfterSeveralFrames ==
    /\ pc = "stop"
    /\ \E i \in Ops("map_read") : calls[i].stream = 0 /\ calls[i].frames = 1
    /\ \E i \in Ops("map_read") : calls[i].stream = 1 /\ calls[i].frames >= 2
    /\ Cardinality(Ops("unmap_read")) = 2

\* C6: a device_manager_select that fails in SnapImage aborts the session:
\* no configure, no start, no poll, and SnapImage returns that status
SelectFailureAbortsSnap ==
    (\E i \in Ops("select") : calls[i].status # "Ok") =>
        /\ Ops("configure") = {} /\ Ops("start") = {} /\ Ops("map_read") = {}
        /\ SnapReturned => ret = "CpxStatus_Err"

\* C7: cpx_configure or cpx_start failing ends SnapImage with
\* ERR_CPX_CONFIURE_FAILED, no stream polled, no buffer touched
ConfigureOrStartFailureReported ==
    (SnapReturned /\ \E i \in Ops("configure") \cup Ops("start") : calls[i].status # "Ok") =>
        /\ ret = "ERR_CPX_CONFIURE_FAILED"
        /\ Ops("map_read") = {} /\ Ops("unmap_read") = {} /\ Ops("memcpy") = {}

\* the place of a call in SnapImage's sequence
Rank(e) ==
    CASE e.op = "select" -> 0
      [] e.op = "configure" -> 1
      [] e.op = "start" -> 2
      [] e.op \in ReadOps -> 3
      [] e.op = "stop" -> 4

\* cpx_start was called and returned Ok
Started == \E i \in Ops("start") : calls[i].status = "Ok"

\* C8: the FrameSource calls of SnapImage come in the order configure,
\* start, read, stop, each of configure / start / stop at most once; a
\* SnapImage that started the FrameSource and has returned has called stop
\* exactly once, last, and the FrameSource is not running
StopAfterEveryStartedSnap ==
    /\ \A i, j \in DOMAIN calls : i < j => Rank(calls[i]) <= Rank(calls[j])
    /\ \A op \in {"configure", "start", "stop"} : Cardinality(Ops(op)) <= 1
    /\ Ops("stop") # {} => Started /\ Ops("memcpy") # {}
    /\ (SnapReturned /\ Started) =>
          /\ Cardinality(Ops("stop")) = 1
          /\ calls[Len(calls)].op = "stop"
    /\ pc = "idle" => ~cpxRunning

\* a SnapImage that started the FrameSource has returned
StartedSnapReturned ==
    /\ SnapReturned /\ Started /\ Ops("stop") # {} /\ ~cpxRunning

\* C9: in readFrames every call on stream 0 comes before every call on
\* stream 1; the first map_read on stream 1 finds stream 0 already seen
\* non-empty, copied and unmapped; never more than one copy per stream, and
\* exactly one from each when readFrames has returned
StreamsReadInSequence ==
    routine = "readFrames" =>
        /\ \A i, j \in DOMAIN calls :
             (IsReadOf(1, calls[i]) /\ IsReadOf(0, calls[j])) => j < i
        /\ LegOf(1) # <<>> =>
             LET leg == LegOf(0) IN
             /\ Len(leg) >= 3
             /\ leg[Len(leg)].op = "unmap_read"
             /\ leg[Len(leg) - 1].op = "memcpy"
             /\ leg[Len(leg) - 2].op = "map_read" /\ leg[Len(leg) - 2].frames >= 1
        /\ \A s \in {0, 1} :
             /\ Cardinality({ i \in Ops("memcpy") : calls[i].stream = s }) <= 1
             /\ (pc = "stop" \/ SnapReturnedOk) =>
                  \E i \in Ops("memcpy") : calls[i].stream = s /\ calls[i].frame = FirstFrame(s)

\* stream 1 is being polled, after stream 0 needed two polls
SecondStreamPolledAfterFirstDone ==
    /\ routine = "readFrames" /\ pc = "loop" /\ stream = 1 /\ view = <<>>
    /\ Len(LegOf(0)) >= 4
    /\ Len(LegOf(1)) >= 2

\* C10: every payload copy of SnapImage stays inside its destination
\* buffer: offset + payload size <= width x height x depth
SnapCopiesStayInsideBuffer ==
    routine = "readFrames" =>
        \A i \in Ops("memcpy") :
            /\ calls[i].dst < Len(imgs)
            /\ calls[i].off + calls[i].bytes <= BufBytes(imgs[calls[i].dst + 1])
====
